---- MODULE Spec2Model ----
(***************************************************************************)
(* Model of the MIT Notes backend (src/server/server.js): the moderation   *)
(* filter, the upload route with multer's disk storage in front of it, the *)
(* search route and the recent-notes route, over a Note Store (MongoDB     *)
(* collection) and a Blob Store (the uploads directory).                   *)
(*                                                                         *)
(* Texts are sequences of one-character strings; a field that the request  *)
(* does not carry (undefined in JavaScript) is the record Absent.          *)
(***************************************************************************)
EXTENDS Integers, Sequences, FiniteSets, TLC

(* ------------------------------ bounds --------------------------------- *)
MaxUploads == 2
MaxReads == 1
MaxTime == 1
MaxSeed == 20
MaxSmallSeed == 6
MaxLen == 5
MaxClientSearches == 2

(* ------------------------------- texts --------------------------------- *)
Absent == [present |-> FALSE, chars |-> <<>>]
Str(s) == [present |-> TRUE, chars |-> s]

\* JavaScript truthiness of a string-or-undefined value: undefined and ''
\* are falsy.
Truthy(text) == text.present /\ text.chars # <<>>

LowerMap ==
  [A |-> "a", B |-> "b", C |-> "c", D |-> "d", E |-> "e", F |-> "f",
   G |-> "g", H |-> "h", I |-> "i", J |-> "j", K |-> "k", L |-> "l",
   M |-> "m", N |-> "n", O |-> "o", P |-> "p", Q |-> "q", R |-> "r",
   S |-> "s", T |-> "t", U |-> "u", V |-> "v", W |-> "w", X |-> "x",
   Y |-> "y", Z |-> "z"]

toLowerCase(s) ==
  [i \in 1..Len(s) |-> IF s[i] \in DOMAIN LowerMap THEN LowerMap[s[i]] ELSE s[i]]

includes(s, word) ==
  \E i \in 0..(Len(s) - Len(word)) : SubSeq(s, i + 1, i + Len(word)) = word

(* --------------------------- moderation -------------------------------- *)
BANNED_KEYWORDS ==
  << <<"g","o","r","e">>,
     <<"v","i","o","l","e","n","c","e">>,
     <<"n","u","d","e">>,
     <<"n","s","f","w">>,
     <<"x","x","x">>,
     <<"k","i","l","l">>,
     <<"b","l","o","o","d">> >>

checkContentSafetyNoFold(text) ==
  IF ~Truthy(text) THEN TRUE
  ELSE ~(\E k \in 1..Len(BANNED_KEYWORDS) : includes(text.chars, BANNED_KEYWORDS[k]))

checkContentSafety(text) ==
  IF ~Truthy(text) THEN TRUE
  ELSE LET lowerText == toLowerCase(text.chars)
       IN  ~(\E k \in 1..Len(BANNED_KEYWORDS) : includes(lowerText, BANNED_KEYWORDS[k]))

(* ------------------------- paths and file names ------------------------ *)
IsSpace(c) == c \in {" ", "\t", "\n"}

\* originalname.replace(/\s+/g, '-'): every maximal run of whitespace
\* becomes one '-'.
RECURSIVE replaceWhitespace(_)
replaceWhitespace(s) ==
  IF s = <<>> THEN <<>>
  ELSE IF IsSpace(Head(s))
       THEN IF Len(s) > 1 /\ IsSpace(s[2])
            THEN replaceWhitespace(Tail(s))
            ELSE <<"-">> \o replaceWhitespace(Tail(s))
       ELSE <<Head(s)>> \o replaceWhitespace(Tail(s))

\* multer filename callback: Date.now() + '-' + originalname.replace(...)
filename(t, originalname) == <<ToString(t), "-">> \o replaceWhitespace(originalname)

\* multer joins destination 'uploads/' and the file name with path.join,
\* which uses the platform's separator.
storedPath(separator, fname) == <<"uploads", separator>> \o fname

normalizeNone(p) == p

\* req.file.path.replace(/\\/g, "/")
normalizeSeparators(p) == [i \in 1..Len(p) |-> IF p[i] = "\\" THEN "/" ELSE p[i]]

(* ------------------------------ requests ------------------------------- *)
PDF == "application/pdf"
NoFile == [present |-> FALSE, mimetype |-> "", originalname |-> <<>>]
PdfFile == [present |-> TRUE, mimetype |-> PDF, originalname |-> <<"f", " ", " ", "m">>]
TxtFile == [present |-> TRUE, mimetype |-> "text/plain", originalname |-> <<"t">>]

Civil == Str(<<"C","i","v","i","l">>)
Fluid == Str(<<"F","l","u","i","d">>)
Flow == Str(<<"F","l","o","w">>)
Heat == Str(<<"H","e","a","t">>)
Intro == Str(<<"i","n","t","r","o">>)
Skilled == Str(<<"s","K","i","L","L","e","d">>)
Nsfw == Str(<<"X","x","X">>)
Empty == Str(<<>>)

Fields(b, s, t, d, f) ==
  [branch |-> b, subject |-> s, topic |-> t, description |-> d, file |-> f]

\* The upload requests the clients send.
UploadInputs ==
  { Fields(Civil, Fluid, Flow, Intro, PdfFile),
    Fields(Civil, Fluid, Skilled, Intro, PdfFile),
    Fields(Civil, Fluid, Flow, Nsfw, PdfFile),
    Fields(Civil, Fluid, Skilled, Absent, NoFile),
    Fields(Civil, Fluid, Flow, Intro, NoFile),
    Fields(Civil, Fluid, Flow, Intro, TxtFile),
    Fields(Civil, Fluid, Flow, Nsfw, TxtFile),
    Fields(Civil, Fluid, Absent, Intro, PdfFile),
    Fields(Absent, Empty, Flow, Absent, PdfFile) }

\* The search requests the clients send: q and the optional branch.
SearchInputs ==
  { <<Absent, Absent>>,
    <<Empty, Civil>>,
    <<Str(<<"f","l","o","w">>), Absent>>,
    <<Str(<<"F","L","O","W">>), Civil>>,
    <<Str(<<"z">>), Absent>> }

StoreErrors == { "buffering timed out", "connection closed" }

MODERATION_ERROR == "Content flagged by moderation system."
NO_FILE_ERROR == "No file uploaded."
PDF_ONLY_ERROR == "Only PDF files are allowed!"
UPLOAD_OK == "Upload successful!"
SEARCH_FAILED == "Search failed"
VALIDATION_ERROR == "Note validation failed"
ENOENT == "ENOENT: no such file or directory, unlink"

NoResp == [status |-> 0, kind |-> "none", text |-> ""]
JsonError(code, msg) == [status |-> code, kind |-> "json_error", text |-> msg]
JsonMessage(code, msg) == [status |-> code, kind |-> "json_message", text |-> msg]
\* Express's default error handler: err.status is undefined, so 500, with
\* an HTML page.
DefaultErrorPage(msg) == [status |-> 500, kind |-> "html", text |-> msg]

(* ------------------------------- notes --------------------------------- *)
NoDoc ==
  [id |-> 0, branch |-> Absent, subject |-> Absent, topic |-> Absent,
   description |-> Absent, filePath |-> <<>>, originalName |-> <<>>, uploadDate |-> 0]

\* Notes stored by earlier uploads, before the modelled requests arrive.
SeedName == <<"s">>
SeedNote(i) ==
  [id |-> 0 - i, branch |-> Civil, subject |-> Fluid,
   topic |-> IF i % 2 = 1 THEN Flow ELSE Heat,
   description |-> Absent,
   filePath |-> storedPath("/", filename(0 - i, SeedName)),
   originalName |-> SeedName, uploadDate |-> 0 - i]
SeedStore(n) == [i \in 1..n |-> SeedNote(n + 1 - i)]
SeedBlobs(separator, n) ==
  { [path |-> storedPath(separator, filename(0 - i, SeedName)), owner |-> 0 - i] : i \in 1..n }
SmallSeeds == 0..MaxSmallSeed
LargeSeeds == {MaxSeed - 1, MaxSeed}

\* NoteSchema's "required" validators: a String path fails when it is
\* undefined or empty.
validates(doc) ==
  /\ Truthy(doc.branch)
  /\ Truthy(doc.subject)
  /\ Truthy(doc.topic)
  /\ doc.filePath # <<>>

\* The search response's "external" field; null is NoExternal.
NoExternal == [isNull |-> TRUE, source |-> "", title |-> <<>>, summary |-> <<>>]

(* ----------------------- the client's data ---------------------------- *)
MOCK_NOTES ==
  << [id |-> "1", branch |-> "Computer Science",
      subject |-> <<"D","a","t","a"," ","S","t","r","u","c","t","u","r","e","s">>,
      topic |-> <<"B","i","n","a","r","y"," ","T","r","e","e","s">>,
      description |-> "Introduction to BST and AVL trees with time complexity analysis.", filePath |-> "#"],
     [id |-> "2", branch |-> "Mechanical",
      subject |-> <<"T","h","e","r","m","o","d","y","n","a","m","i","c","s">>,
      topic |-> <<"L","a","w","s"," ","o","f"," ","T","h","e","r","m","o","d","y","n","a","m","i","c","s">>,
      description |-> "Summary of 1st and 2nd laws with real-world engine examples.", filePath |-> "#"],
     [id |-> "3", branch |-> "Civil",
      subject |-> <<"F","l","u","i","d"," ","M","e","c","h","a","n","i","c","s">>,
      topic |-> <<"B","e","r","n","o","u","l","l","i"," ","P","r","i","n","c","i","p","l","e">>,
      description |-> "Derivations, solved examples, and hydraulic applications.", filePath |-> "#"],
     [id |-> "4", branch |-> "Electrical",
      subject |-> <<"C","i","r","c","u","i","t"," ","T","h","e","o","r","y">>,
      topic |-> <<"K","i","r","c","h","h","o","f","f","s"," ","L","a","w","s">>,
      description |-> "KCL and KVL explained with complex circuit diagrams.", filePath |-> "#"],
     [id |-> "5", branch |-> "Information Technology",
      subject |-> <<"W","e","b"," ","D","e","v">>,
      topic |-> <<"R","e","a","c","t"," ","H","o","o","k","s">>,
      description |-> "Deep dive into useState, useEffect and custom hooks.", filePath |-> "#"] >>

\* What axios hands to a catch block: the error's code and message and the
\* status of the response (0 when there is none).
NoError == [code |-> "", message |-> "", status |-> 0]
AxiosErrors ==
  { [code |-> "ERR_NETWORK", message |-> "Network Error", status |-> 0],
    [code |-> "ERR_BAD_RESPONSE", message |-> "Request failed with status code 500", status |-> 500],
    [code |-> "ERR_BAD_REQUEST", message |-> "Request failed with status code 404", status |-> 404] }

\* Bodies the backend answers with.
NoCard == [isNull |-> TRUE, title |-> "", summary |-> <<>>]
ServerNote ==
  [id |-> "n", branch |-> "Civil", subject |-> <<"F","l","o","w">>,
   topic |-> <<"P","i","p","e","s">>, description |-> "", filePath |-> "uploads/0-f"]
NotesBodies == { <<ServerNote>> }
SearchBodies ==
  { [internal |-> <<>>,
     external |-> [isNull |-> FALSE, title |-> "Concept Summary", summary |-> <<>>]],
    [internal |-> <<ServerNote, ServerNote, ServerNote>>, external |-> NoCard] }

\* The texts typed into the search box.
ClientQueries ==
  { <<>>, <<"e">>, <<"L","A","W","S">>, <<"z","z">> }

IdleSearch == [active |-> FALSE, q |-> <<>>]
ClientSearchIds == 1..MaxClientSearches

IdleClient ==
  [notesReq |-> "none", recent |-> <<>>, serverError |-> FALSE,
   query |-> <<>>, loading |-> FALSE, hasSearched |-> FALSE,
   results |-> [internal |-> <<>>, external |-> NoCard],
   inflight |-> [i \in ClientSearchIds |-> IdleSearch],
   notesError |-> NoError, lastSearch |-> [q |-> <<>>, error |-> NoError],
   log |-> "none"]

(* ------------------------------- state --------------------------------- *)
VARIABLES now, sep, uploads, reads, notes, blobs, storeQueries, probe, client
vars == <<now, sep, uploads, reads, notes, blobs, storeQueries, probe, client>>
serverVars == <<now, sep, uploads, reads, notes, blobs, storeQueries, probe>>

UploadIds == 1..MaxUploads
ReadIds == 1..MaxReads

IdleUpload ==
  [pc |-> "idle", body |-> Fields(Absent, Absent, Absent, Absent, NoFile),
   path |-> <<>>, doc |-> NoDoc, resp |-> NoResp, storeError |-> "",
   blobAtSave |-> FALSE, moderated |-> FALSE,
   blobWrites |-> 0, blobDeletes |-> 0, metaWrites |-> 0]

IdleRead ==
  [pc |-> "idle", kind |-> "none", q |-> Absent, branch |-> Absent,
   seenLen |-> 0, snapLen |-> 0, queries |-> 0, resp |-> NoResp,
   storeError |-> "",
   internal |-> <<>>, external |-> NoExternal, list |-> <<>>]

BlobPaths == { b.path : b \in blobs }

\* A call of the moderation filter on its own: the text given and the
\* answer ("none" before the call).
NoProbe == [text |-> Absent, result |-> "none"]

\* The server starts on either platform, over the notes and blobs that
\* earlier runs left behind.
InitWith(sizes) ==
  /\ now = 0
  /\ sep \in {"/", "\\"}
  /\ uploads = [r \in UploadIds |-> IdleUpload]
  /\ reads = [k \in ReadIds |-> IdleRead]
  /\ \E n \in sizes : notes = SeedStore(n) /\ blobs = SeedBlobs(sep, n)
  /\ storeQueries = 0
  /\ probe = NoProbe
  /\ client = IdleClient

\* The client's page before it mounts; the backend is whatever answers it.
InitClient == InitWith({0}) /\ sep = "/"

Init == InitWith({0, MaxSmallSeed})
InitEmpty == InitWith({0})
InitAnySize == InitWith(SmallSeeds \cup LargeSeeds)
InitRecent == InitWith(LargeSeeds)

\* The clock read by Date.now() advances by itself.
Tick ==
  /\ now < MaxTime
  /\ now' = now + 1
  /\ UNCHANGED <<sep, uploads, reads, notes, blobs, storeQueries, probe, client>>

(* ------------------------- POST /api/upload ---------------------------- *)
\* fs.unlinkSync(path) on the uploads directory.
unlink(store, path) == { b \in store : b.path # path }

\* multer's disk storage writing the received file under `path`.
writeBlob(store, path, owner) == unlink(store, path) \cup { [path |-> path, owner |-> owner] }

\* An upload middleware that stores every file part and filters afterwards.
UploadReceiveWriteFirst(r, inp) ==
  /\ uploads[r].pc = "idle"
  /\ r > 1 => uploads[r - 1].pc # "idle"
  /\ LET f == inp.file
         path == storedPath(sep, filename(now, f.originalname))
     IN  IF ~f.present
         THEN /\ uploads' = [uploads EXCEPT ![r].pc = "handler", ![r].body = inp]
              /\ UNCHANGED blobs
         ELSE IF f.mimetype = PDF
         THEN /\ uploads' = [uploads EXCEPT ![r].pc = "handler", ![r].body = inp,
                                            ![r].path = path,
                                            ![r].blobWrites = @ + 1]
              /\ blobs' = writeBlob(blobs, path, r)
         ELSE /\ uploads' = [uploads EXCEPT ![r].pc = "done", ![r].body = inp,
                                            ![r].blobWrites = @ + 1,
                                            ![r].resp = DefaultErrorPage(PDF_ONLY_ERROR)]
              /\ blobs' = unlink(writeBlob(blobs, path, r), path)
  /\ UNCHANGED <<now, sep, reads, notes, storeQueries, probe, client>>

\* upload.single('file'): multer parses the multipart body before the route
\* handler runs.  The fileFilter refuses a non-PDF part with an Error that
\* no error middleware catches; an accepted part is written to disk under
\* the generated name; a body without a file part goes straight on.
UploadReceive(r, inp) ==
  /\ uploads[r].pc = "idle"
  /\ r > 1 => uploads[r - 1].pc # "idle"
  /\ LET f == inp.file
         path == storedPath(sep, filename(now, f.originalname))
     IN  IF ~f.present
         THEN /\ uploads' = [uploads EXCEPT ![r].pc = "handler", ![r].body = inp]
              /\ UNCHANGED blobs
         ELSE IF f.mimetype = PDF
         THEN /\ uploads' = [uploads EXCEPT ![r].pc = "handler", ![r].body = inp,
                                            ![r].path = path,
                                            ![r].blobWrites = @ + 1]
              /\ blobs' = writeBlob(blobs, path, r)
         ELSE /\ uploads' = [uploads EXCEPT ![r].pc = "done", ![r].body = inp,
                                            ![r].resp = DefaultErrorPage(PDF_ONLY_ERROR)]
              /\ UNCHANGED blobs
  /\ UNCHANGED <<now, sep, reads, notes, storeQueries, probe, client>>

\* new Note({...}): uploadDate defaults to Date.now() when the document is
\* constructed.
newNoteRawPath(r, body, path, t) ==
  [id |-> r, branch |-> body.branch, subject |-> body.subject, topic |-> body.topic,
   description |-> body.description,
   filePath |-> normalizeNone(path),
   originalName |-> body.file.originalname, uploadDate |-> t]

newNote(r, body, path, t) ==
  [id |-> r, branch |-> body.branch, subject |-> body.subject, topic |-> body.topic,
   description |-> body.description,
   filePath |-> normalizeSeparators(path),
   originalName |-> body.file.originalname, uploadDate |-> t]

\* A route handler that tests for the missing file before it moderates.
UploadHandlerFileFirst(r) ==
  /\ uploads[r].pc = "handler"
  /\ LET u == uploads[r]
         body == u.body
     IN  IF ~body.file.present
         THEN /\ uploads' = [uploads EXCEPT ![r].pc = "done",
                               ![r].resp = JsonError(400, NO_FILE_ERROR)]
              /\ UNCHANGED blobs
         ELSE IF ~checkContentSafety(body.topic) \/ ~checkContentSafety(body.description)
         THEN IF u.path \in BlobPaths
              THEN /\ blobs' = unlink(blobs, u.path)
                   /\ uploads' = [uploads EXCEPT ![r].pc = "done", ![r].moderated = TRUE,
                                    ![r].blobDeletes = @ + 1,
                                    ![r].resp = JsonError(400, MODERATION_ERROR)]
              ELSE /\ uploads' = [uploads EXCEPT ![r].pc = "done", ![r].moderated = TRUE,
                                    ![r].resp = JsonError(500, ENOENT)]
                   /\ UNCHANGED blobs
         ELSE /\ uploads' = [uploads EXCEPT ![r].pc = "saving", ![r].moderated = TRUE,
                               ![r].doc = newNote(r, body, u.path, now)]
              /\ UNCHANGED blobs
  /\ UNCHANGED <<now, sep, reads, notes, storeQueries, probe, client>>

\* The route handler up to `await newNote.save()`.
UploadHandler(r) ==
  /\ uploads[r].pc = "handler"
  /\ LET u == uploads[r]
         body == u.body
     IN  IF ~checkContentSafety(body.topic) \/ ~checkContentSafety(body.description)
         THEN IF body.file.present
              THEN IF u.path \in BlobPaths
                   THEN /\ blobs' = unlink(blobs, u.path)
                        /\ uploads' = [uploads EXCEPT ![r].pc = "done", ![r].moderated = TRUE,
                                         ![r].blobDeletes = @ + 1,
                                         ![r].resp = JsonError(400, MODERATION_ERROR)]
                   ELSE \* unlinkSync throws; the catch block answers
                        /\ uploads' = [uploads EXCEPT ![r].pc = "done", ![r].moderated = TRUE,
                                         ![r].resp = JsonError(500, ENOENT)]
                        /\ UNCHANGED blobs
              ELSE /\ uploads' = [uploads EXCEPT ![r].pc = "done", ![r].moderated = TRUE,
                                    ![r].resp = JsonError(400, MODERATION_ERROR)]
                   /\ UNCHANGED blobs
         ELSE IF ~body.file.present
         THEN /\ uploads' = [uploads EXCEPT ![r].pc = "done", ![r].moderated = TRUE,
                               ![r].resp = JsonError(400, NO_FILE_ERROR)]
              /\ UNCHANGED blobs
         ELSE /\ uploads' = [uploads EXCEPT ![r].pc = "saving", ![r].moderated = TRUE,
                               ![r].doc = newNote(r, body, u.path, now)]
              /\ UNCHANGED blobs
  /\ UNCHANGED <<now, sep, reads, notes, storeQueries, probe, client>>

\* What the catch block of the upload route answers.
uploadCatch(message) == JsonError(500, message)

\* newNote.save() settles: validation runs first, then the insert reaches
\* the store, which accepts it or fails.
UploadSaved(r) ==
  /\ uploads[r].pc = "saving"
  /\ LET u == uploads[r]
     IN  IF ~validates(u.doc)
         THEN /\ uploads' = [uploads EXCEPT ![r].pc = "done",
                               ![r].resp = uploadCatch(VALIDATION_ERROR)]
              /\ UNCHANGED <<notes, storeQueries>>
         ELSE /\ storeQueries' = storeQueries + 1
              /\ \/ /\ notes' = Append(notes, u.doc)
                    /\ uploads' = [uploads EXCEPT ![r].pc = "done",
                                     ![r].metaWrites = @ + 1,
                                     ![r].blobAtSave = (u.path \in BlobPaths),
                                     ![r].resp = JsonMessage(201, UPLOAD_OK)]
                 \/ /\ \E e \in StoreErrors :
                         uploads' = [uploads EXCEPT ![r].pc = "done",
                                       ![r].storeError = e,
                                       ![r].resp = uploadCatch(e)]
                    /\ UNCHANGED notes
  /\ UNCHANGED <<now, sep, reads, blobs, probe, client>>

(* --------------------------- the Note Store ---------------------------- *)
Min(a, b) == IF a < b THEN a ELSE b

\* .limit(n)
limit(s, n) == SubSeq(s, 1, Min(n, Len(s)))

\* The words of a text as the text index sees them: lower-cased maximal
\* runs of non-blank characters.
Words(text) ==
  IF ~text.present THEN {}
  ELSE LET s == toLowerCase(text.chars)
           n == Len(s)
       IN  { SubSeq(s, p[1], p[2]) :
               p \in { p \in (1..n) \X (1..n) :
                         /\ p[1] <= p[2]
                         /\ \A i \in p[1]..p[2] : ~IsSpace(s[i])
                         /\ (p[1] = 1 \/ IsSpace(s[p[1] - 1]))
                         /\ (p[2] = n \/ IsSpace(s[p[2] + 1])) } }

\* { $text: { $search: query } } over the index on subject, topic and
\* description: a note matches when it holds one of the query's words.
textMatch(note, query) ==
  Words(query) \cap (Words(note.subject) \cup Words(note.topic) \cup Words(note.description)) # {}

Remove(s, i) == SubSeq(s, 1, i - 1) \o SubSeq(s, i + 1, Len(s))

\* Index of the entry the sort puts first: one with the greatest uploadDate
\* (tie = "first": the earliest inserted of them, "last": the latest).
Pick(s, tie) ==
  LET best == { i \in 1..Len(s) : \A j \in 1..Len(s) : s[j].uploadDate <= s[i].uploadDate }
  IN  IF tie = "first" THEN CHOOSE i \in best : \A j \in best : i <= j
      ELSE CHOOSE i \in best : \A j \in best : j <= i

PickOldest(s, tie) ==
  LET best == { i \in 1..Len(s) : \A j \in 1..Len(s) : s[i].uploadDate <= s[j].uploadDate }
  IN  IF tie = "first" THEN CHOOSE i \in best : \A j \in best : i <= j
      ELSE CHOOSE i \in best : \A j \in best : j <= i

RECURSIVE sortAscending(_, _)
sortAscending(s, tie) ==
  IF s = <<>> THEN <<>>
  ELSE LET i == PickOldest(s, tie) IN <<s[i]>> \o sortAscending(Remove(s, i), tie)

\* .sort({ uploadDate: -1 }); the store leaves the order of equal dates open
RECURSIVE sortByUploadDateDesc(_, _)
sortByUploadDateDesc(s, tie) ==
  IF s = <<>> THEN <<>>
  ELSE LET i == Pick(s, tie) IN <<s[i]>> \o sortByUploadDateDesc(Remove(s, i), tie)

SEARCH_LIMIT == 10
NOTES_LIMIT == 20
FALLBACK_BELOW == 3

(* --------------------------- GET /api/search --------------------------- *)
externalFallbackAtMost(n) == n <= FALLBACK_BELOW
externalFallback(n) == n < FALLBACK_BELOW

externalKnowledge(query, branch) ==
  [isNull |-> FALSE,
   source |-> "External Knowledge Base",
   title |-> <<"Concept Summary: ">> \o query.chars,
   summary |-> <<"We found limited local PDFs, but here is what you need to know about ">>
               \o query.chars
               \o <<". This topic usually covers foundational principles in ">>
               \o (IF Truthy(branch) THEN branch.chars ELSE <<"engineering">>)
               \o <<". Important questions often involve derivations and practical applications.">>]

\* `if (!query)`: q is missing or empty.
queryMissingOnly(q) == ~q.present
queryMissing(q) == ~Truthy(q)

\* The handler up to `await Note.find(...)`; an empty or missing q is
\* answered at once.
SearchReceive(k, q, branch) ==
  /\ reads[k].pc = "idle"
  /\ k > 1 => reads[k - 1].pc # "idle"
  /\ IF queryMissing(q)
     THEN /\ reads' = [reads EXCEPT ![k].pc = "done", ![k].kind = "search",
                         ![k].q = q, ![k].branch = branch,
                         ![k].seenLen = Len(notes),
                         ![k].resp = [status |-> 200, kind |-> "json_search", text |-> ""],
                         ![k].internal = <<>>, ![k].external = NoExternal]
          /\ UNCHANGED storeQueries
     ELSE /\ reads' = [reads EXCEPT ![k].pc = "finding", ![k].kind = "search",
                         ![k].q = q, ![k].branch = branch,
                         ![k].seenLen = Len(notes), ![k].queries = @ + 1]
          /\ storeQueries' = storeQueries + 1
  /\ UNCHANGED <<now, sep, uploads, notes, blobs, probe, client>>

searchCatch(message) == JsonError(500, SEARCH_FAILED)

\* The find settles and the handler answers.
SearchFound(k) ==
  /\ reads[k].pc = "finding"
  /\ reads[k].kind = "search"
  /\ \/ LET internalResults == limit(SelectSeq(notes, LAMBDA n : textMatch(n, reads[k].q)),
                                     SEARCH_LIMIT)
            ext == IF externalFallback(Len(internalResults))
                   THEN externalKnowledge(reads[k].q, reads[k].branch)
                   ELSE NoExternal
        IN  reads' = [reads EXCEPT ![k].pc = "done", ![k].snapLen = Len(notes),
                        ![k].resp = [status |-> 200, kind |-> "json_search", text |-> ""],
                        ![k].internal = internalResults, ![k].external = ext]
     \/ \E e \in StoreErrors :
          reads' = [reads EXCEPT ![k].pc = "done", ![k].storeError = e,
                      ![k].resp = searchCatch(e)]
  /\ UNCHANGED <<now, sep, uploads, notes, blobs, storeQueries, probe, client>>

(* --------------------------- GET /api/notes ---------------------------- *)
ListReceive(k) ==
  /\ reads[k].pc = "idle"
  /\ k > 1 => reads[k - 1].pc # "idle"
  /\ reads' = [reads EXCEPT ![k].pc = "finding", ![k].kind = "list",
                 ![k].seenLen = Len(notes), ![k].queries = @ + 1]
  /\ storeQueries' = storeQueries + 1
  /\ UNCHANGED <<now, sep, uploads, notes, blobs, probe, client>>

listCatchFixed(message) == JsonError(500, "Listing failed")
listCatch(message) == JsonError(500, message)

recentNotesAscending(store, tie) == limit(sortAscending(store, tie), NOTES_LIMIT)
recentNotesUnlimited(store, tie) == sortByUploadDateDesc(store, tie)
recentNotes(store, tie) == limit(sortByUploadDateDesc(store, tie), NOTES_LIMIT)

ListFound(k) ==
  /\ reads[k].pc = "finding"
  /\ reads[k].kind = "list"
  /\ \/ \E tie \in {"first", "last"} :
          reads' = [reads EXCEPT ![k].pc = "done", ![k].snapLen = Len(notes),
                      ![k].resp = [status |-> 200, kind |-> "json_notes", text |-> ""],
                      ![k].list = recentNotes(notes, tie)]
     \/ \E e \in StoreErrors :
          reads' = [reads EXCEPT ![k].pc = "done", ![k].storeError = e,
                      ![k].resp = listCatch(e)]
  /\ UNCHANGED <<now, sep, uploads, notes, blobs, storeQueries, probe, client>>

(* ----------------------- the moderation filter alone ------------------- *)
Alphabet == {"s", "k", "K", "i", "l", "L", "x"}

RECURSIVE SeqsUpTo(_)
SeqsUpTo(n) ==
  IF n = 0 THEN { <<>> }
  ELSE LET shorter == SeqsUpTo(n - 1)
       IN  shorter \cup { Append(s, c) : s \in { t \in shorter : Len(t) = n - 1 }, c \in Alphabet }

Texts == { Absent } \cup { Str(s) : s \in SeqsUpTo(MaxLen) }

InitSafety ==
  /\ now = 0
  /\ sep = "/"
  /\ uploads = [r \in UploadIds |-> IdleUpload]
  /\ reads = [k \in ReadIds |-> IdleRead]
  /\ notes = <<>>
  /\ blobs = {}
  /\ storeQueries = 0
  /\ \E t \in Texts : probe = [text |-> t, result |-> "none"]
  /\ client = IdleClient

Moderate ==
  /\ probe.result = "none"
  /\ probe' = [probe EXCEPT !.result = IF checkContentSafety(probe.text) THEN "safe" ELSE "unsafe"]
  /\ UNCHANGED <<now, sep, uploads, reads, notes, blobs, storeQueries, client>>

(* ------------------------ the client's Home page ----------------------- *)
\* useEffect(..., []): the page mounts and asks for the recent notes.
Mount ==
  /\ client.notesReq = "none"
  /\ client' = [client EXCEPT !.notesReq = "pending"]
  /\ UNCHANGED serverVars

NotesResolved(data) ==
  /\ client.notesReq = "pending"
  /\ client' = [client EXCEPT !.notesReq = "done", !.recent = data,
                               !.serverError = FALSE]
  /\ UNCHANGED serverVars

recentFallback(err) == MOCK_NOTES

NotesRejected(err) ==
  /\ client.notesReq = "pending"
  /\ LET isBackendError == err.code = "ERR_NETWORK" \/ err.status = 500
     IN  client' = [client EXCEPT !.notesReq = "done",
                      !.log = IF isBackendError THEN "warn" ELSE "error",
                      !.serverError = TRUE,
                      !.recent = recentFallback(err),
                      !.notesError = err]
  /\ UNCHANGED serverVars

\* onChange of the search box
SetQuery(q) ==
  /\ client' = [client EXCEPT !.query = q]
  /\ UNCHANGED serverVars

\* handleSearch up to the await: nothing happens on an empty query.
HandleSearch(i) ==
  /\ client.query # <<>>
  /\ ~client.inflight[i].active
  /\ client' = [client EXCEPT !.loading = TRUE, !.hasSearched = TRUE,
                               !.inflight[i] = [active |-> TRUE, q |-> client.query]]
  /\ UNCHANGED serverVars

SearchResolved(i, data) ==
  /\ client.inflight[i].active
  /\ client' = [client EXCEPT !.inflight[i] = IdleSearch,
                               !.results = data, !.serverError = FALSE,
                               !.lastSearch = [q |-> client.inflight[i].q, error |-> NoError],
                               !.loading = FALSE]
  /\ UNCHANGED serverVars

\* MOCK_NOTES.filter(n => n.subject.toLowerCase().includes(query.toLowerCase())
\*                        || n.topic.toLowerCase().includes(query.toLowerCase()))
mockSearch(query) ==
  SelectSeq(MOCK_NOTES,
            LAMBDA n : \/ includes(toLowerCase(n.subject), toLowerCase(query))
                       \/ includes(toLowerCase(n.topic), toLowerCase(query)))

offlineCardWhenSparse(mockResults, query) ==
  IF Len(mockResults) < 3
  THEN [isNull |-> FALSE, title |-> "Generative Concept Summary",
        summary |-> <<"(Offline Mode) Since the backend is disconnected, we can't search live files for \"">>
                    \o query \o <<"\". However, typically this topic involves fundamental engineering concepts found in standard curriculum.">>]
  ELSE NoCard

\* The external card of the fallback results.
offlineCard(mockResults, query) ==
  [isNull |-> FALSE, title |-> "Generative Concept Summary",
   summary |-> <<"(Offline Mode) Since the backend is disconnected, we can't search live files for \"">>
               \o query \o <<"\". However, typically this topic involves fundamental engineering concepts found in standard curriculum.">>]

SearchRejected(i, err) ==
  /\ client.inflight[i].active
  /\ LET query == client.inflight[i].q
         isBackendError == \/ err.code = "ERR_NETWORK"
                           \/ err.message = "Network Error"
                           \/ err.status = 500
         mockResults == mockSearch(query)
     IN  client' = [client EXCEPT !.inflight[i] = IdleSearch,
                      !.serverError = TRUE,
                      !.log = IF isBackendError THEN @ ELSE "error",
                      !.results = [internal |-> mockResults,
                                   external |-> offlineCard(mockResults, query)],
                      !.lastSearch = [q |-> query, error |-> err],
                      !.loading = FALSE]
  /\ UNCHANGED serverVars

\* The "Clear Search" button, shown when a search found nothing at all.
ClearSearch ==
  /\ client.hasSearched
  /\ client.results.internal = <<>>
  /\ client.results.external.isNull
  /\ client' = [client EXCEPT !.query = <<>>, !.hasSearched = FALSE]
  /\ UNCHANGED serverVars

NextClient ==
  \/ Mount
  \/ \E data \in NotesBodies : NotesResolved(data)
  \/ \E err \in AxiosErrors : NotesRejected(err)
  \/ \E q \in ClientQueries : SetQuery(q)
  \/ \E i \in ClientSearchIds : HandleSearch(i)
  \/ \E i \in ClientSearchIds, data \in SearchBodies : SearchResolved(i, data)
  \/ \E i \in ClientSearchIds, err \in AxiosErrors : SearchRejected(i, err)
  \/ ClearSearch

(* ---------------------------- specification ---------------------------- *)
NextUpload ==
  \/ Tick
  \/ \E r \in UploadIds, inp \in UploadInputs : UploadReceive(r, inp)
  \/ \E r \in UploadIds : UploadHandler(r)
  \/ \E r \in UploadIds : UploadSaved(r)

NextSearch ==
  \/ \E k \in ReadIds, inp \in SearchInputs : SearchReceive(k, inp[1], inp[2])
  \/ \E k \in ReadIds : SearchFound(k)

NextList ==
  \/ \E k \in ReadIds : ListReceive(k)
  \/ \E k \in ReadIds : ListFound(k)

Next == NextUpload \/ NextSearch \/ NextList

\* The whole server.
Spec == Init /\ [][Next]_vars

\* Concurrent uploads alone, over an empty store.
SpecUpload == InitEmpty /\ [][NextUpload]_vars

\* Search requests over stores of every seeded size.
SpecSearch == InitAnySize /\ [][NextSearch]_vars

\* The moderation filter applied to every text up to MaxLen characters.
SpecSafety == InitSafety /\ [][Moderate]_vars

\* The client's Home page against a backend that answers or fails.
SpecClient == InitClient /\ [][NextClient]_vars

\* Uploads and listings over a store that already holds about NOTES_LIMIT
\* notes.
SpecRecent == InitRecent /\ [][NextUpload \/ NextList]_vars

(* ------------------------------ properties ----------------------------- *)
UploadDone(r) == uploads[r].pc = "done"
NotesOf(r) == { i \in 1..Len(notes) : notes[i].id = r }
BlobsOf(r) == { b \in blobs : b.owner = r }
HasPdf(body) == body.file.present /\ body.file.mimetype = "application/pdf"
FlaggedFields(body) == body.topic = Skilled \/ body.description = Nsfw

\* C1: an upload whose topic or description fails moderation ends with no
\* note of its own in the Note Store, no blob of its own in the Blob Store
\* and a 400 answer carrying the moderation error.  Stated here for the
\* requests the route handler moderates (no file, or a PDF); the claim covers
\* them, so it fails wherever this does.
C1_RejectedUploadLeavesNothing ==
  \A r \in UploadIds :
    (UploadDone(r) /\ FlaggedFields(uploads[r].body)
       /\ (HasPdf(uploads[r].body) \/ ~uploads[r].body.file.present))
    => /\ NotesOf(r) = {}
       /\ BlobsOf(r) = {}
       /\ uploads[r].resp = JsonError(400, MODERATION_ERROR)

\* C2: every note in the Note Store references a blob that was in the Blob
\* Store when the note was created, whatever the interleaving of uploads.
C2_NoOrphanMetadata ==
  \A i \in 1..Len(notes) :
    notes[i].id \in UploadIds => uploads[notes[i].id].blobAtSave

\* C3: an upload whose file is not a PDF is answered 400 with a JSON error
\* body, creates no note and leaves no blob.
C3_NonPdfRejectedWith400 ==
  \A r \in UploadIds :
    (UploadDone(r) /\ uploads[r].body.file.present
       /\ uploads[r].body.file.mimetype # "application/pdf")
    => /\ uploads[r].resp.status = 400
       /\ uploads[r].resp.kind = "json_error"
       /\ NotesOf(r) = {}
       /\ BlobsOf(r) = {}

\* The record C4 expects of upload r: the blob's path with "/" for every
\* "\", and the file's original name.
ExpectedRecord(r) ==
  /\ Cardinality(NotesOf(r)) = 1
  /\ \A i \in NotesOf(r) :
       /\ Len(notes[i].filePath) = Len(uploads[r].path)
       /\ \A j \in 1..Len(uploads[r].path) :
            notes[i].filePath[j] = (IF uploads[r].path[j] = "\\" THEN "/" ELSE uploads[r].path[j])
       /\ notes[i].originalName = uploads[r].body.file.originalname

\* C4 as claimed: an upload with a PDF and text fields that pass moderation
\* creates exactly one note, with the normalised path and the original
\* name, and is answered 201.
C4_SafePdfUploadAlwaysStored ==
  \A r \in UploadIds :
    (UploadDone(r) /\ HasPdf(uploads[r].body) /\ ~FlaggedFields(uploads[r].body))
    => /\ uploads[r].resp.status = 201
       /\ ExpectedRecord(r)

RequiredFieldsGiven(body) ==
  /\ body.branch.present /\ body.branch.chars # <<>>
  /\ body.subject.present /\ body.subject.chars # <<>>
  /\ body.topic.present /\ body.topic.chars # <<>>

\* C4 as amended: an upload with a PDF, non-empty branch, subject and topic,
\* and text fields that pass moderation creates exactly one note, with the
\* normalised path and the original name, and is answered 201, unless the
\* Note Store fails the write: then it creates none and is answered 500.
C4_SafePdfUploadStored ==
  \A r \in UploadIds :
    (UploadDone(r) /\ HasPdf(uploads[r].body) /\ ~FlaggedFields(uploads[r].body)
       /\ RequiredFieldsGiven(uploads[r].body))
    => \/ /\ uploads[r].resp = JsonMessage(201, UPLOAD_OK)
          /\ ExpectedRecord(r)
       \/ /\ uploads[r].resp.status = 500
          /\ uploads[r].storeError # ""
          /\ NotesOf(r) = {}

\* A stored upload on a platform whose separator is "\".
C4_Witness ==
  \E r \in UploadIds :
    /\ UploadDone(r) /\ uploads[r].resp.status = 201
    /\ sep = "\\"
    /\ \E j \in 1..Len(uploads[r].path) : uploads[r].path[j] = "\\"
    /\ ExpectedRecord(r)

SearchAnswered(k) ==
  /\ reads[k].kind = "search" /\ reads[k].pc = "done"
  /\ reads[k].resp.status = 200

\* C5: a search with a non-empty q that the store answers carries a non-null
\* external field exactly when it has fewer than 3 internal results, titled
\* "Concept Summary: " followed by q; with 3 or more, external is null.
C5_ExternalIffFewerThanThree ==
  \A k \in ReadIds :
    (SearchAnswered(k) /\ reads[k].q.present /\ reads[k].q.chars # <<>>)
    => /\ (~reads[k].external.isNull) <=> (Len(reads[k].internal) \in {0, 1, 2})
       /\ reads[k].external.isNull <=> (Len(reads[k].internal) >= 3)
       /\ ~reads[k].external.isNull =>
            reads[k].external.title = <<"Concept Summary: ">> \o reads[k].q.chars

\* A search that found exactly 3 notes and answered external: null.
C5_Witness ==
  \E k \in ReadIds :
    /\ SearchAnswered(k) /\ reads[k].q.chars # <<>>
    /\ Len(reads[k].internal) = 3
    /\ reads[k].external.isNull

\* The lower-case form of a character, read off LowerMap.
Folded(c) == IF c \in DOMAIN LowerMap THEN LowerMap[c] ELSE c

\* Some denylisted term occurs in the text, letter case aside, at some
\* offset.
HoldsDenylistedTerm(chars) ==
  \E t \in 1..Len(BANNED_KEYWORDS) :
    \E off \in 0..Len(chars) :
      /\ off + Len(BANNED_KEYWORDS[t]) <= Len(chars)
      /\ \A j \in 1..Len(BANNED_KEYWORDS[t]) : Folded(chars[off + j]) = BANNED_KEYWORDS[t][j]

\* C6: the filter answers true for null and for the empty string; for any
\* other text it answers false exactly when the lower-cased text holds a
\* denylisted term as a substring, word boundaries or not.
C6_FilterIsSubstringDenylist ==
  probe.result # "none"
  => /\ (~probe.text.present \/ probe.text.chars = <<>>) => probe.result = "safe"
     /\ (probe.text.present /\ probe.text.chars # <<>>)
          => (probe.result = "unsafe" <=> HoldsDenylistedTerm(probe.text.chars))

\* The filter has flagged "sKiLL": a term in mixed case inside a longer word.
C6_Witness ==
  /\ probe.result = "unsafe"
  /\ probe.text = Str(<<"s", "K", "i", "L", "L">>)

ListAnswered(k) ==
  /\ reads[k].kind = "list" /\ reads[k].pc = "done"
  /\ reads[k].resp.status = 200

\* The store as the listing read it (notes are only ever appended).
Snapshot(k) == SubSeq(notes, 1, reads[k].snapLen)

\* At most 20 records, all from the store, none twice, none older than a
\* record left out.
LatestTwenty(k) ==
  LET out == reads[k].list
      snap == Snapshot(k)
      ids == { out[i].id : i \in 1..Len(out) }
  IN  /\ Len(out) <= 20
      /\ Len(out) = (IF Len(snap) < 20 THEN Len(snap) ELSE 20)
      /\ Cardinality(ids) = Len(out)
      /\ \A i \in 1..Len(out) : \E j \in 1..Len(snap) : snap[j] = out[i]
      /\ \A j \in 1..Len(snap) :
           snap[j].id \notin ids =>
             \A i \in 1..Len(out) : snap[j].uploadDate <= out[i].uploadDate

\* C7 as claimed: the listing returns at most 20 records, those with the
\* latest upload times, each strictly later than the one after it.
C7_ListingStrictlyDescending ==
  \A k \in ReadIds :
    ListAnswered(k)
    => /\ LatestTwenty(k)
       /\ \A i \in 1..(Len(reads[k].list) - 1) :
            reads[k].list[i].uploadDate > reads[k].list[i + 1].uploadDate

\* C7 as amended: the listing returns at most 20 records, those with the
\* latest upload times, each later than or as late as the one after it.
C7_ListingDescending ==
  \A k \in ReadIds :
    ListAnswered(k)
    => /\ LatestTwenty(k)
       /\ \A i \in 1..(Len(reads[k].list) - 1) :
            reads[k].list[i].uploadDate >= reads[k].list[i + 1].uploadDate

\* A listing of a store of more than 20 notes whose first two records carry
\* the same upload time.
C7_Witness ==
  \E k \in ReadIds :
    /\ ListAnswered(k)
    /\ reads[k].snapLen > 20
    /\ Len(reads[k].list) = 20
    /\ reads[k].list[1].uploadDate = reads[k].list[2].uploadDate

\* Listing k was issued after upload r was answered 201 and no other upload
\* was stored before the listing read the store: r's note is the last one
\* stored, both when the listing arrived and when it read the store.
ListedRightAfter(k, r) ==
  /\ ListAnswered(k)
  /\ UploadDone(r) /\ uploads[r].resp.status = 201
  /\ reads[k].seenLen = reads[k].snapLen
  /\ reads[k].snapLen >= 1
  /\ notes[reads[k].snapLen].id = r

\* C8 as claimed: a listing issued after an upload's 201, with no later
\* upload stored in between, has that upload's note as its first entry.
C8_UploadedNoteListedFirst ==
  \A k \in ReadIds, r \in UploadIds :
    ListedRightAfter(k, r) => reads[k].list[1].id = r

\* No other note the listing read carries an upload time equal to or later
\* than that of r's note.
LatestByTime(k, r) ==
  \A j \in 1..reads[k].snapLen :
    notes[j].id # r => notes[j].uploadDate < uploads[r].doc.uploadDate

\* C8 as amended: a listing issued after an upload's 201, with no later
\* upload stored in between, has that upload's note as its first entry
\* provided no other stored note carries an upload time equal to or later
\* than that note's.
C8_LatestUploadedNoteListedFirst ==
  \A k \in ReadIds, r \in UploadIds :
    (ListedRightAfter(k, r) /\ LatestByTime(k, r)) => reads[k].list[1].id = r

\* Two uploads were stored, the second one a tick later, and a listing
\* issued after it has it first.
C8_Witness ==
  \E k \in ReadIds, r \in UploadIds :
    /\ ListedRightAfter(k, r) /\ LatestByTime(k, r)
    /\ \E o \in UploadIds : o # r /\ NotesOf(o) # {} /\ uploads[o].resp.status = 201
    /\ reads[k].list[1].id = r

\* C9: a search whose q is empty or absent answers {internal: [],
\* external: null} without touching the Note Store: the step that answers
\* it leaves the store, the blobs and the store's query count as they were.
C9_EmptyQueryShortCircuits ==
  [][ \A k \in ReadIds :
        (reads[k].pc = "idle" /\ reads'[k].kind = "search"
           /\ (~reads'[k].q.present \/ reads'[k].q.chars = <<>>))
        => /\ reads'[k].pc = "done"
           /\ reads'[k].resp.status = 200
           /\ reads'[k].internal = <<>>
           /\ reads'[k].external.isNull
           /\ reads'[k].queries = 0
           /\ notes' = notes
           /\ blobs' = blobs
           /\ storeQueries' = storeQueries ]_vars

\* A search with q = '' has been answered.
C9_Witness ==
  \E k \in ReadIds :
    /\ reads[k].kind = "search" /\ reads[k].pc = "done"
    /\ reads[k].q = Empty
    /\ reads[k].internal = <<>> /\ reads[k].external.isNull

\* C10 as claimed: a Note Store failure during an upload, a search or a
\* listing ends the request with a 5xx answer whose JSON error field is the
\* failure's own message.
C10_StoreFailureSurfacesRawMessage ==
  /\ \A r \in UploadIds :
       uploads[r].storeError # "" =>
         /\ uploads[r].resp.status \in 500..599
         /\ uploads[r].resp.kind = "json_error"
         /\ uploads[r].resp.text = uploads[r].storeError
  /\ \A k \in ReadIds :
       reads[k].storeError # "" =>
         /\ reads[k].resp.status \in 500..599
         /\ reads[k].resp.kind = "json_error"
         /\ reads[k].resp.text = reads[k].storeError

\* C10 as amended: a Note Store failure ends the request with a 5xx answer
\* with a JSON error field; for an upload and for a listing the field is the
\* failure's own message, for a search it is the fixed text "Search failed".
C10_StoreFailureSurfaces ==
  /\ \A r \in UploadIds :
       uploads[r].storeError # "" =>
         /\ uploads[r].resp.status \in 500..599
         /\ uploads[r].resp.kind = "json_error"
         /\ uploads[r].resp.text = uploads[r].storeError
  /\ \A k \in ReadIds :
       reads[k].storeError # "" =>
         /\ reads[k].resp.status \in 500..599
         /\ reads[k].resp.kind = "json_error"
         /\ reads[k].kind = "list" => reads[k].resp.text = reads[k].storeError
         /\ reads[k].kind = "search" => reads[k].resp.text = "Search failed"

\* The store has failed an upload and a listing.
C10_Witness ==
  /\ \E r \in UploadIds : UploadDone(r) /\ uploads[r].storeError # ""
  /\ \E k \in ReadIds : reads[k].kind = "list" /\ reads[k].pc = "done" /\ reads[k].storeError # ""

\* The failures the client takes for an offline backend.
BackendDown(err) == err.code = "ERR_NETWORK" \/ err.status = 500

\* `q` occurs in `text` at some offset, letter case aside.
ContainsFolded(text, q) ==
  \E off \in 0..Len(text) :
    /\ off + Len(q) <= Len(text)
    /\ \A j \in 1..Len(q) : Folded(text[off + j]) = Folded(q[j])

SampleMatches(q) ==
  SelectSeq(MOCK_NOTES, LAMBDA n : ContainsFolded(n.subject, q) \/ ContainsFolded(n.topic, q))

\* C11: when the notes request fails with a network error or a 500 the
\* recent-notes view holds the sample dataset; when a search fails so, the
\* results are the sample notes whose subject or topic contains the query,
\* letter case aside, with the offline summary card, however many match.
C11_OfflineFallback ==
  /\ (client.notesReq = "done" /\ BackendDown(client.notesError))
       => client.recent = MOCK_NOTES
  /\ BackendDown(client.lastSearch.error)
       => /\ client.results.internal = SampleMatches(client.lastSearch.q)
          /\ ~client.results.external.isNull
          /\ client.results.external.title = "Generative Concept Summary"

\* The notes request met a network error and a search for "e" met a 500:
\* all five sample notes match and the card is shown.
C11_Witness ==
  /\ client.notesReq = "done" /\ client.notesError.code = "ERR_NETWORK"
  /\ client.recent = MOCK_NOTES
  /\ client.lastSearch.error.status = 500
  /\ client.lastSearch.q = <<"e">>
  /\ Len(client.results.internal) >= 3
  /\ ~client.results.external.isNull

\* The side effects of upload r so far, short of the blob write.
DeleteAndRecordWritesInOrder(r) ==
  /\ uploads[r].blobDeletes <= 1
  /\ uploads[r].blobDeletes = 1 =>
       /\ FlaggedFields(uploads[r].body)
       /\ uploads[r].resp = JsonError(400, MODERATION_ERROR)
  /\ uploads[r].metaWrites <= 1
  /\ uploads[r].metaWrites = 1 =>
       /\ uploads[r].body.file.present
       /\ ~FlaggedFields(uploads[r].body)
       /\ uploads[r].resp.status = 201

\* C12 as claimed: an upload writes exactly one blob whenever a file was
\* sent, deletes at most one blob and only on a moderation rejection, and
\* writes at most one note and only when it succeeds in full.
C12_OneBlobWritePerFileSent ==
  \A r \in UploadIds :
    uploads[r].pc # "idle"
    => /\ uploads[r].body.file.present => uploads[r].blobWrites = 1
       /\ ~uploads[r].body.file.present => uploads[r].blobWrites = 0
       /\ DeleteAndRecordWritesInOrder(r)

\* C12 as amended: an upload writes exactly one blob whenever a PDF file was
\* sent and none for a file the filter refuses, deletes at most one blob and
\* only on a moderation rejection, and writes at most one note and only
\* when it succeeds in full.
C12_OneBlobWritePerPdfSent ==
  \A r \in UploadIds :
    uploads[r].pc # "idle"
    => /\ HasPdf(uploads[r].body) => uploads[r].blobWrites = 1
       /\ ~HasPdf(uploads[r].body) => uploads[r].blobWrites = 0
       /\ DeleteAndRecordWritesInOrder(r)

\* One upload was rejected by moderation after its blob was written and
\* deleted, and another wrote its blob and its note.
C12_Witness ==
  /\ \E r \in UploadIds :
       UploadDone(r) /\ uploads[r].blobWrites = 1 /\ uploads[r].blobDeletes = 1
  /\ \E r \in UploadIds :
       UploadDone(r) /\ uploads[r].blobWrites = 1 /\ uploads[r].metaWrites = 1

\* C13 as claimed: the missing-file check comes before moderation: an upload
\* without a file is answered with the missing-file 4xx error whatever its
\* topic and description hold, and moderation runs only for uploads that
\* carry a file.
C13_MissingFileCheckedFirst ==
  \A r \in UploadIds :
    /\ (UploadDone(r) /\ ~uploads[r].body.file.present)
         => uploads[r].resp = JsonError(400, NO_FILE_ERROR)
    /\ uploads[r].moderated => uploads[r].body.file.present

\* C13 as amended: moderation comes before the missing-file check: an upload
\* without a file is answered 400, with the moderation error when its topic
\* or description is flagged and with the missing-file error otherwise, and
\* moderation runs for every upload that reaches the handler, with a file
\* or without.
C13_ModerationCheckedFirst ==
  \A r \in UploadIds :
    /\ (UploadDone(r) /\ ~uploads[r].body.file.present)
         => /\ uploads[r].resp.status = 400
            /\ uploads[r].resp.kind = "json_error"
            /\ FlaggedFields(uploads[r].body) => uploads[r].resp.text = MODERATION_ERROR
            /\ ~FlaggedFields(uploads[r].body) => uploads[r].resp.text = NO_FILE_ERROR
    /\ (uploads[r].pc \in {"saving", "done"} /\ uploads[r].resp.kind # "html")
         => uploads[r].moderated

\* An upload without a file and with a flagged topic has been answered with
\* the moderation error.
C13_Witness ==
  \E r \in UploadIds :
    /\ UploadDone(r) /\ ~uploads[r].body.file.present
    /\ uploads[r].body.topic = Skilled
    /\ uploads[r].moderated
    /\ uploads[r].resp = JsonError(400, MODERATION_ERROR)

====
